---- MODULE Spec2Model ----
(***************************************************************************)
(* Model of the zk-token-sdk client core:                                  *)
(*   - encryption/auth_encryption.rs : AeKey, AeCiphertext, the balance    *)
(*     cipher (Spec)                                                       *)
(*   - zk_token_proof_instruction.rs : ProofInstruction and its codec      *)
(*     (CodecSpec)                                                         *)
(* The two components do not call each other; each has its own next-state  *)
(* relation over the one set of variables.                                 *)
(***************************************************************************)
EXTENDS Integers, Sequences, FiniteSets, TLC

VARIABLES
    key,        \* the caller's live AeKey: None or Some(16 bytes)
    freed,      \* bytes left in the memory of the AeKey dropped last (<<>> before any drop)
    plaintext,  \* content of encrypt's local `plaintext` buffer when encrypt returned
    ct,         \* the AeCiphertext held by the caller: None or Some([nonce, ciphertext])
    ctFrom,     \* the (key, balance) that the encrypt call producing ct was given
    buf,        \* a byte buffer: the output of to_bytes or bytes received from elsewhere
    bufFrom,    \* the AeCiphertext that to_bytes serialised into buf, None for received bytes
    ix,         \* the Instruction under consideration (codec)
    built,      \* the arguments ix was built from, None for foreign instruction data
    call,       \* the last call made: <<operation, arguments...>>
    ret         \* what the last call returned

vars == <<key, freed, plaintext, ct, ctFrom, buf, bufFrom, ix, built, call, ret>>

cipherVars == <<key, freed, plaintext, ct, ctFrom, buf, bufFrom>>
codecVars == <<ix, built>>

----------------------------------------------------------------------------
(* Option / Result values.  Records throughout are written with their    *)
(* fields in the order in which the field names first occur in the module. *)

None == <<"None">>
Some(x) == <<"Some", x>>
Ok(x) == <<"Ok", x>>
Err(e) == <<"Err", e>>
IsSome(o) == o[1] = "Some"
IsOk(r) == r[1] = "Ok"
IsErr(r) == r[1] = "Err"

----------------------------------------------------------------------------
(* Bytes *)

Byte == 0..255

Rep(n, b) == [i \in 1..n |-> b]

\* bytes b, b+1, b+2, ... (mod 256): a buffer whose bytes differ by position
Ramp(n, b) == [i \in 1..n |-> (b + i - 1) % 256]

RECURSIVE Mix(_, _, _)
\* a fold of the bytes s[lo..hi] that depends on every byte and its position:
\* the mixing step of the modelled digests
Mix(s, lo, hi) ==
    IF lo > hi THEN 7
    ELSE IF lo = hi THEN ((s[lo] + 1) * (lo + 2)) % 65521
    ELSE LET m == (lo + hi) \div 2
         IN (Mix(s, lo, m) * 31 + Mix(s, m + 1, hi)) % 65521

Fold(s) == Mix(s, 1, Len(s))

\* Zeroize for byte arrays: every byte overwritten with 0
zeroize(b) == [i \in 1..Len(b) |-> 0]

----------------------------------------------------------------------------
(* Sizes fixed by the types *)

AE_KEY_LEN == 16
NONCE_LEN == 12
CIPHERTEXT_LEN == 24
AE_CIPHERTEXT_LEN == 36
MINIMUM_SEED_LEN == 16

----------------------------------------------------------------------------
(* Bounds of the model *)

NumNonces == 2      \* distinct nonces OsRng can draw
NumRngKeys == 2     \* distinct keys a random source can draw
MaxSeedLen == 17    \* seeds of length 0..MaxSeedLen
BufSlack == 2       \* received buffers of length 0 and 36 - BufSlack .. 36 + BufSlack
MaxInputLen == 2    \* foreign instruction data of length 0..MaxInputLen
NumPayloads == 2    \* distinct proof payloads of each payload type
NumPubkeys == 2     \* distinct account addresses

----------------------------------------------------------------------------
(* u64 balances.  A u64 is held as its four 16-bit limbs, least significant *)
(* first, so that every value up to u64::MAX is representable.              *)

U64_MAX == <<65535, 65535, 65535, 65535>>

Balances == { <<0, 0, 0, 0>>, <<55, 0, 0, 0>>, U64_MAX, <<513, 1027, 1541, 2055>> }

\* u64::to_le_bytes: byte i (from 1) is bits 8(i-1) .. 8i-1 of the value
to_le_bytes(balance) ==
    [i \in 1..8 |-> IF i % 2 = 1 THEN balance[(i + 1) \div 2] % 256
                                 ELSE balance[(i + 1) \div 2] \div 256]

\* u64::from_le_bytes
from_le_bytes(bytes) == [j \in 1..4 |-> bytes[2 * j - 1] + 256 * bytes[2 * j]]

----------------------------------------------------------------------------
(* Aes128GcmSiv (crate aes_gcm_siv): an AEAD with a 16-byte key, a 12-byte  *)
(* nonce, a 16-byte tag and no associated data.  The transform itself is    *)
(* modelled by a keyed stream and a keyed tag over (key, nonce, plaintext). *)

TAG_LEN == 16

Keystream(k, nonce, i) ==
    (3 * k[((i - 1) % Len(k)) + 1] + 5 * nonce[((i - 1) % Len(nonce)) + 1] + 7 * i) % 256

Tag(k, nonce, pt) ==
    LET h == Fold(pt)
    IN [j \in 1..TAG_LEN |->
          (h * (j + 1) + k[((j - 1) % Len(k)) + 1] + nonce[((j - 1) % Len(nonce)) + 1]) % 256]

\* Aead::encrypt: Ok(ciphertext), the encrypted plaintext followed by the tag
Aes128GcmSiv_encrypt(k, nonce, pt) ==
    Ok([i \in 1..Len(pt) |-> (pt[i] + Keystream(k, nonce, i)) % 256] \o Tag(k, nonce, pt))

\* Aead::decrypt: Ok(plaintext) when the tag authenticates, Err otherwise
Aes128GcmSiv_decrypt(k, nonce, c) ==
    IF Len(c) < TAG_LEN THEN Err("aead::Error")
    ELSE LET n == Len(c) - TAG_LEN
             pt == [i \in 1..n |-> (c[i] + 256 - Keystream(k, nonce, i)) % 256]
         IN IF SubSeq(c, n + 1, Len(c)) = Tag(k, nonce, pt) THEN Ok(pt)
            ELSE Err("aead::Error")

----------------------------------------------------------------------------
(* AuthenticatedEncryption *)

AeCiphertext(nonce, ciphertext) == [nonce |-> nonce, ciphertext |-> ciphertext]

\* AuthenticatedEncryption::keygen: the 16 bytes the random source yields
keygen(rng) == rng

\* AuthenticatedEncryption::encrypt with the nonce OsRng drew.  The result is
\* [plaintext, value]: the content of the local plaintext buffer when encrypt
\* ends, and Ok(the AeCiphertext returned) or the panic of expect / unwrap.
encrypt(k, balance, nonce) ==
    LET pt == to_le_bytes(balance)
        r == Aes128GcmSiv_encrypt(k, nonce, pt)
    IN IF IsErr(r) THEN [plaintext |-> pt, value |-> <<"panic", "authenticated encryption">>]
       ELSE IF Len(r[2]) # CIPHERTEXT_LEN
            THEN [plaintext |-> zeroize(pt), value |-> <<"panic", "unwrap">>]
            ELSE [plaintext |-> zeroize(pt), value |-> Ok(AeCiphertext(nonce, r[2]))]

\* decrypt reading the recovered bytes most significant first
decrypt_from_be_bytes(k, c) ==
    LET r == Aes128GcmSiv_decrypt(k, c.nonce, c.ciphertext)
    IN IF IsOk(r)
       THEN IF Len(r[2]) # 8 THEN <<"panic", "unwrap">>
            ELSE Some([j \in 1..4 |-> r[2][10 - 2 * j] + 256 * r[2][9 - 2 * j]])
       ELSE None

\* AuthenticatedEncryption::decrypt
decrypt(k, c) ==
    LET r == Aes128GcmSiv_decrypt(k, c.nonce, c.ciphertext)
    IN IF IsOk(r)
       THEN IF Len(r[2]) # 8 THEN <<"panic", "unwrap">>
            ELSE Some(from_le_bytes(r[2]))
       ELSE None

----------------------------------------------------------------------------
(* AeCiphertext serialisation *)

\* AeCiphertext::to_bytes
to_bytes(c) ==
    [i \in 1..AE_CIPHERTEXT_LEN |->
        IF i <= NONCE_LEN THEN c.nonce[i] ELSE c.ciphertext[i - NONCE_LEN]]

\* from_bytes rejecting only the buffers that are too short
from_bytes_min_len(bytes) ==
    IF Len(bytes) < AE_CIPHERTEXT_LEN THEN None
    ELSE Some(AeCiphertext(SubSeq(bytes, 1, NONCE_LEN),
                           SubSeq(bytes, NONCE_LEN + 1, NONCE_LEN + CIPHERTEXT_LEN)))

\* AeCiphertext::from_bytes
from_bytes(bytes) ==
    IF Len(bytes) # AE_CIPHERTEXT_LEN THEN None
    ELSE Some(AeCiphertext(SubSeq(bytes, 1, NONCE_LEN),
                           SubSeq(bytes, NONCE_LEN + 1, NONCE_LEN + CIPHERTEXT_LEN)))

----------------------------------------------------------------------------
(* Key derivation *)

\* Signature::default(): 64 zero bytes
SIGNATURE_BYTES == 64

Signature_default == Rep(SIGNATURE_BYTES, 0)

\* subtle::ConstantTimeEq on byte slices: equal length and equal bytes
ct_eq(a, b) == Len(a) = Len(b) /\ \A i \in 1..Len(a) : a[i] = b[i]

\* AeKey::new without the check against the default signature
AeKey_new_unchecked(signer) ==
    IF IsErr(signer.try_pubkey) THEN signer.try_pubkey
    ELSE IF IsErr(signer.try_sign_message) THEN signer.try_sign_message
    ELSE Ok(SubSeq(signer.try_sign_message[2], 1, AE_KEY_LEN))

\* AeKey::new.  signer is [try_pubkey, try_sign_message]: what the signer
\* answers to try_pubkey() and to try_sign_message(message) for this address.
AeKey_new(signer) ==
    IF IsErr(signer.try_pubkey) THEN signer.try_pubkey
    ELSE IF IsErr(signer.try_sign_message) THEN signer.try_sign_message
    ELSE LET signature == signer.try_sign_message[2]
         IN IF ct_eq(signature, Signature_default)
            THEN Err("Custom(Rejecting default signature)")
            ELSE Ok(SubSeq(signature, 1, AE_KEY_LEN))

\* Sha3_512 (crate sha3): a 64-byte digest of the whole input
Sha3_512(msg) ==
    LET h == Fold(msg)
    IN [i \in 1..64 |-> (h * (i + 2) + 31 * i + Len(msg)) % 256]

\* from_seed with the length test off by one
from_seed_le(seed) ==
    IF Len(seed) <= MINIMUM_SEED_LEN THEN Err("Seed is too short")
    ELSE Ok(SubSeq(Sha3_512(seed), 1, AE_KEY_LEN))

\* SeedDerivable::from_seed
from_seed(seed) ==
    IF Len(seed) < MINIMUM_SEED_LEN THEN Err("Seed is too short")
    ELSE Ok(SubSeq(Sha3_512(seed), 1, AE_KEY_LEN))

\* SeedDerivable::from_seed_and_derivation_path
from_seed_and_derivation_path(seed, derivation_path) ==
    Err("DerivationMethodNotSupported")

\* generate_seed_from_seed_phrase_and_passphrase: the 64-byte PBKDF2 output
\* for (seed phrase, "mnemonic" + passphrase)
generate_seed_from_seed_phrase_and_passphrase(seed_phrase, passphrase) ==
    LET h == Fold(seed_phrase \o <<109>> \o passphrase)
    IN [i \in 1..64 |-> (h * (2 * i + 1) + 3 * i) % 256]

\* SeedDerivable::from_seed_phrase_and_passphrase
from_seed_phrase_and_passphrase(seed_phrase, passphrase) ==
    from_seed(generate_seed_from_seed_phrase_and_passphrase(seed_phrase, passphrase))


----------------------------------------------------------------------------
(* Inputs *)

RngKeys == { Ramp(AE_KEY_LEN, 17 * i) : i \in 1..NumRngKeys }

Nonces == { Ramp(NONCE_LEN, 40 * i) : i \in 1..NumNonces }

Signatures ==
    { Signature_default,                                \* NullSigner
      Rep(AE_KEY_LEN, 0) \o Ramp(SIGNATURE_BYTES - AE_KEY_LEN, 1),
      <<1>> \o Rep(SIGNATURE_BYTES - 1, 0),
      Ramp(SIGNATURE_BYTES, 200) }

Signers ==
    { [try_pubkey |-> p, try_sign_message |-> s] :
        p \in { Ok("pubkey"), Err("SignerError: try_pubkey") },
        s \in { Ok(sig) : sig \in Signatures } \cup { Err("SignerError: try_sign_message") } }

Seeds == { Ramp(n, 1) : n \in 0..MaxSeedLen }

SeedPhrases == { <<115, 101, 101, 100>>, <<112>> }

Passphrases == { <<>>, <<120>> }

Buffers ==
    { Ramp(n, 7) :
        n \in {0} \cup ((AE_CIPHERTEXT_LEN - BufSlack)..(AE_CIPHERTEXT_LEN + BufSlack)) }

----------------------------------------------------------------------------
(* The AeKey's life *)

\* Dropping an AeKey: the type derives Zeroize (a zeroize() method) and has no
\* Drop impl, so the drop runs no code and the 16 bytes stay as they were.
drop_AeKey(bytes) == bytes

\* The caller stores a fallible constructor's result: an Ok key replaces (and
\* so drops) the key held before, an Err leaves it.
StoreKey(r) ==
    IF IsOk(r)
    THEN /\ key' = Some(r[2])
         /\ freed' = IF IsSome(key) THEN drop_AeKey(key[2]) ELSE freed
    ELSE UNCHANGED <<key, freed>>

\* AeKey::random
Random ==
    \E rng \in RngKeys :
        /\ StoreKey(Ok(keygen(rng)))
        /\ call' = <<"random", rng>>
        /\ ret' = keygen(rng)
        /\ UNCHANGED <<plaintext, ct, ctFrom, buf, bufFrom, codecVars>>

\* AeKey::new
New ==
    \E signer \in Signers :
        \E r \in { AeKey_new(signer) } :
           /\ StoreKey(r)
           /\ call' = <<"new", signer>>
           /\ ret' = r
        /\ UNCHANGED <<plaintext, ct, ctFrom, buf, bufFrom, codecVars>>

\* AeKey::from_seed
FromSeed ==
    \E seed \in Seeds :
        \E r \in { from_seed(seed) } :
           /\ StoreKey(r)
           /\ call' = <<"from_seed", seed>>
           /\ ret' = r
        /\ UNCHANGED <<plaintext, ct, ctFrom, buf, bufFrom, codecVars>>

\* AeKey::from_seed_and_derivation_path
FromSeedAndDerivationPath ==
    \E seed \in { Ramp(0, 1), Ramp(MaxSeedLen, 1) }, path \in { None, Some("m/44'/501'") } :
        /\ StoreKey(from_seed_and_derivation_path(seed, path))
        /\ call' = <<"from_seed_and_derivation_path", seed, path>>
        /\ ret' = from_seed_and_derivation_path(seed, path)
        /\ UNCHANGED <<plaintext, ct, ctFrom, buf, bufFrom, codecVars>>

\* AeKey::from_seed_phrase_and_passphrase
FromSeedPhraseAndPassphrase ==
    \E seed_phrase \in SeedPhrases, passphrase \in Passphrases :
        \E r \in { from_seed_phrase_and_passphrase(seed_phrase, passphrase) } :
           /\ StoreKey(r)
           /\ call' = <<"from_seed_phrase_and_passphrase", seed_phrase, passphrase>>
           /\ ret' = r
        /\ UNCHANGED <<plaintext, ct, ctFrom, buf, bufFrom, codecVars>>

\* The AeKey goes out of scope
DropKey ==
    /\ IsSome(key)
    /\ freed' = drop_AeKey(key[2])
    /\ key' = None
    /\ call' = <<"drop", key[2]>>
    /\ ret' = <<>>
    /\ UNCHANGED <<plaintext, ct, ctFrom, buf, bufFrom, codecVars>>

----------------------------------------------------------------------------
(* The cipher *)

\* AeKey::encrypt
Encrypt ==
    /\ IsSome(key)
    /\ \E balance \in Balances, nonce \in Nonces :
        \E r \in { encrypt(key[2], balance, nonce) } :
           /\ call' = <<"encrypt", key[2], balance, nonce>>
           /\ ret' = IF r.value[1] = "panic" THEN r.value ELSE r.value[2]
           /\ plaintext' = r.plaintext
           /\ IF r.value[1] = "panic"
              THEN UNCHANGED <<ct, ctFrom>>
              ELSE /\ ct' = Some(r.value[2])
                   /\ ctFrom' = Some([key |-> key[2], balance |-> balance])
    /\ UNCHANGED <<key, freed, buf, bufFrom, codecVars>>

\* AeKey::decrypt / AeCiphertext::decrypt
Decrypt ==
    /\ IsSome(key)
    /\ IsSome(ct)
    /\ call' = <<"decrypt", key[2], ct[2]>>
    /\ ret' = decrypt(key[2], ct[2])
    /\ UNCHANGED <<cipherVars, codecVars>>

\* AeCiphertext::to_bytes
ToBytes ==
    /\ IsSome(ct)
    /\ buf' = to_bytes(ct[2])
    /\ bufFrom' = ct
    /\ call' = <<"to_bytes", ct[2]>>
    /\ ret' = to_bytes(ct[2])
    /\ UNCHANGED <<key, freed, plaintext, ct, ctFrom, codecVars>>

\* Bytes arrive from elsewhere (an account's data, a file)
ReceiveBuf ==
    \E bytes \in Buffers :
        /\ buf' = bytes
        /\ bufFrom' = None
        /\ call' = <<"receive", bytes>>
        /\ ret' = <<>>
        /\ UNCHANGED <<key, freed, plaintext, ct, ctFrom, codecVars>>

\* AeCiphertext::from_bytes; the caller keeps a ciphertext that parsed
FromBytes ==
    \E r \in { from_bytes(buf) } :
       /\ call' = <<"from_bytes", buf>>
       /\ ret' = r
       /\ IF IsSome(r)
          THEN /\ ct' = r
               /\ ctFrom' = IF bufFrom = ct THEN ctFrom ELSE None
          ELSE UNCHANGED <<ct, ctFrom>>
       /\ UNCHANGED <<key, freed, plaintext, buf, bufFrom, codecVars>>


----------------------------------------------------------------------------
(* ProofInstruction *)

\* enum ProofInstruction, #[repr(u8)], in declared order
ProofInstruction ==
    << "CloseContextState",
       "VerifyZeroBalance",
       "VerifyWithdraw",
       "VerifyCiphertextCiphertextEquality",
       "VerifyTransfer",
       "VerifyTransferWithFee",
       "VerifyPubkeyValidity" >>

\* #[derive(ToPrimitive)]: the variant's ordinal
to_u8(variant) == Some((CHOOSE i \in 1..Len(ProofInstruction) : ProofInstruction[i] = variant) - 1)

\* #[derive(FromPrimitive)]: the variant with that ordinal, if any
from_u8(n) == IF n < Len(ProofInstruction) THEN Some(ProofInstruction[n + 1]) ELSE None

\* The proof payload types (crate::instruction), each a Pod record
PayloadTypes ==
    { "ZeroBalanceProofData", "WithdrawData", "CiphertextCiphertextEqualityProofData",
      "TransferData", "TransferWithFeeData", "PubkeyValidityData" }

\* size_of::<T>() of a payload type, in bytes.  The records are defined outside
\* these sources; the model gives each type its own fixed size.
size_of(T) ==
    CASE T = "ZeroBalanceProofData" -> 6
      [] T = "WithdrawData" -> 31
      [] T = "CiphertextCiphertextEqualityProofData" -> 13
      [] T = "TransferData" -> 48
      [] T = "TransferWithFeeData" -> 71
      [] T = "PubkeyValidityData" -> 3

\* align_of::<T>(): the payload records are made of byte arrays
align_of(T) == 1

\* bytemuck::bytes_of: the record's own bytes
bytes_of(proof_data) == proof_data.bytes

\* bytemuck::try_from_bytes::<T>(s), s starting at address addr
try_from_bytes(T, s, addr) ==
    IF Len(s) # size_of(T) THEN Err("SizeMismatch")
    ELSE IF addr % align_of(T) # 0 THEN Err("TargetAlignmentGreaterAndInputNotAligned")
    ELSE Ok([bytes |-> s, type |-> T])

\* zk_token_proof_program::id()
zk_token_proof_program_id == "ZkTokenProof1111111111111111111111111111111"

\* AccountMeta::new
AccountMeta_new(pubkey, is_signer) ==
    [pubkey |-> pubkey, is_signer |-> is_signer, is_writable |-> TRUE]

\* AccountMeta::new_readonly
AccountMeta_new_readonly(pubkey, is_signer) ==
    [pubkey |-> pubkey, is_signer |-> is_signer, is_writable |-> FALSE]

Instruction(program_id, accounts, data) ==
    [program_id |-> program_id, accounts |-> accounts, data |-> data]

\* close_context_state with the authority not marked as signer
close_context_state_no_signer(context_state_info, destination_account) ==
    LET accounts == << AccountMeta_new(context_state_info.context_state_account, FALSE),
                       AccountMeta_new(destination_account, FALSE),
                       AccountMeta_new_readonly(context_state_info.context_state_authority, FALSE) >>
        data == << 0 >>
    IN Instruction(zk_token_proof_program_id, accounts, data)

\* close_context_state
close_context_state(context_state_info, destination_account) ==
    LET accounts == << AccountMeta_new(context_state_info.context_state_account, FALSE),
                       AccountMeta_new(destination_account, FALSE),
                       AccountMeta_new_readonly(context_state_info.context_state_authority, TRUE) >>
        data == << to_u8("CloseContextState")[2] >>
    IN Instruction(zk_token_proof_program_id, accounts, data)

\* encode_verify_proof with the two account references in the other order
encode_verify_proof_swapped(self, context_state_info, proof_data) ==
    LET accounts ==
            IF IsSome(context_state_info)
            THEN << AccountMeta_new_readonly(context_state_info[2].context_state_authority, FALSE),
                    AccountMeta_new(context_state_info[2].context_state_account, FALSE) >>
            ELSE <<>>
        data == << (CHOOSE i \in 1..7 : ProofInstruction[i] = self) - 1 >> \o proof_data.bytes
    IN Instruction(zk_token_proof_program_id, accounts, data)

\* ProofInstruction::encode_verify_proof
encode_verify_proof(self, context_state_info, proof_data) ==
    LET accounts ==
            IF IsSome(context_state_info)
            THEN << AccountMeta_new(context_state_info[2].context_state_account, FALSE),
                    AccountMeta_new_readonly(context_state_info[2].context_state_authority, FALSE) >>
            ELSE <<>>
        data == << to_u8(self)[2] >> \o bytes_of(proof_data)
    IN Instruction(zk_token_proof_program_id, accounts, data)

verify_zero_balance(context_state_info, proof_data) ==
    encode_verify_proof("VerifyZeroBalance", context_state_info, proof_data)

verify_withdraw(context_state_info, proof_data) ==
    encode_verify_proof("VerifyWithdraw", context_state_info, proof_data)

verify_ciphertext_ciphertext_equality(context_state_info, proof_data) ==
    encode_verify_proof("VerifyCiphertextCiphertextEquality", context_state_info, proof_data)

verify_transfer(context_state_info, proof_data) ==
    encode_verify_proof("VerifyTransfer", context_state_info, proof_data)

verify_transfer_with_fee(context_state_info, proof_data) ==
    encode_verify_proof("VerifyTransferWithFee", context_state_info, proof_data)

verify_pubkey_validity(context_state_info, proof_data) ==
    encode_verify_proof("VerifyPubkeyValidity", context_state_info, proof_data)

\* instruction_type reading the last byte of the input
instruction_type_last(input) ==
    IF input = <<>> THEN None ELSE from_u8(input[Len(input)])

\* ProofInstruction::instruction_type
instruction_type(input) ==
    IF input = <<>> THEN None ELSE from_u8(input[1])

\* proof_data that does not skip the discriminant byte
proof_data_no_skip(T, input, addr) ==
    LET r == try_from_bytes(T, input, addr)
    IN IF IsOk(r) THEN Some(r[2]) ELSE None

\* proof_data that parses the leading size_of(T) bytes and ignores the rest
proof_data_prefix(T, input, addr) ==
    IF Len(input) < 1 + size_of(T) THEN None
    ELSE LET r == try_from_bytes(T, SubSeq(input, 2, 1 + size_of(T)), addr + 1)
         IN IF IsOk(r) THEN Some(r[2]) ELSE None

\* ProofInstruction::proof_data::<T, _>(input), input starting at address addr
proof_data(T, input, addr) ==
    IF Len(input) < 1 THEN None
    ELSE LET r == try_from_bytes(T, SubSeq(input, 2, Len(input)), addr + 1)
         IN IF IsOk(r) THEN Some(r[2]) ELSE None

----------------------------------------------------------------------------
(* Codec inputs *)

Pubkeys == 1..NumPubkeys

ContextStateInfos ==
    { [context_state_account |-> a, context_state_authority |-> b] : a, b \in Pubkeys }

Payloads(T) == { [bytes |-> Ramp(size_of(T), 50 * i), type |-> T] : i \in 1..NumPayloads }

\* Instruction data that this codec did not build: any first byte, any length
ForeignInputs ==
    { IF n = 0 THEN <<>> ELSE <<b>> \o Ramp(n - 1, 255 - b) : b \in Byte, n \in 0..MaxInputLen }

\* Where the caller's input slice may start in memory
Addrs == {64, 65}

----------------------------------------------------------------------------
(* Codec operations *)

\* The per-proof builder of each verify variant
Builder(name, context_state_info, proof) ==
    CASE name = "VerifyZeroBalance" -> verify_zero_balance(context_state_info, proof)
      [] name = "VerifyWithdraw" -> verify_withdraw(context_state_info, proof)
      [] name = "VerifyCiphertextCiphertextEquality" ->
            verify_ciphertext_ciphertext_equality(context_state_info, proof)
      [] name = "VerifyTransfer" -> verify_transfer(context_state_info, proof)
      [] name = "VerifyTransferWithFee" ->
            verify_transfer_with_fee(context_state_info, proof)
      [] name = "VerifyPubkeyValidity" -> verify_pubkey_validity(context_state_info, proof)

\* A call of the builder `name`, whose proof_data parameter has type proofType
Build(name, proofType) ==
    \E context_state_info \in {None} \cup { Some(c) : c \in ContextStateInfos },
       proof \in Payloads(proofType) :
        \E r \in { Builder(name, context_state_info, proof) } :
           /\ ix' = r
           /\ built' = Some([proof_data |-> proof, context_state_info |-> context_state_info,
                             op |-> name])
           /\ call' = <<name, context_state_info, proof>>
           /\ ret' = r
        /\ UNCHANGED cipherVars

VerifyZeroBalance ==
    Build("VerifyZeroBalance", "ZeroBalanceProofData")

VerifyWithdraw ==
    Build("VerifyWithdraw", "WithdrawData")

VerifyCiphertextCiphertextEquality ==
    Build("VerifyCiphertextCiphertextEquality", "CiphertextCiphertextEqualityProofData")

VerifyTransfer ==
    Build("VerifyTransfer", "TransferData")

VerifyTransferWithFee ==
    Build("VerifyTransferWithFee", "TransferWithFeeData")

VerifyPubkeyValidity ==
    Build("VerifyPubkeyValidity", "PubkeyValidityData")

CloseContextState ==
    \E context_state_info \in ContextStateInfos, destination_account \in Pubkeys :
        /\ ix' = close_context_state(context_state_info, destination_account)
        /\ built' = Some([context_state_info |-> context_state_info,
                          destination_account |-> destination_account,
                          op |-> "CloseContextState"])
        /\ call' = <<"close_context_state", context_state_info, destination_account>>
        /\ ret' = close_context_state(context_state_info, destination_account)
        /\ UNCHANGED cipherVars

\* Instruction data built by something else reaches the parser
ReceiveInput ==
    \E input \in ForeignInputs :
        /\ ix' = Instruction(zk_token_proof_program_id, <<>>, input)
        /\ built' = None
        /\ call' = <<"receive_input", input>>
        /\ ret' = <<>>
        /\ UNCHANGED cipherVars

InstructionType ==
    /\ call' = <<"instruction_type", ix.data>>
    /\ ret' = instruction_type(ix.data)
    /\ UNCHANGED <<cipherVars, codecVars>>

ProofData ==
    \E T \in PayloadTypes, addr \in Addrs :
        /\ call' = <<"proof_data", T, ix.data, addr>>
        /\ ret' = proof_data(T, ix.data, addr)
        /\ UNCHANGED <<cipherVars, codecVars>>

----------------------------------------------------------------------------
(* Specifications *)

Init ==
    /\ key = None
    /\ freed = <<>>
    /\ plaintext = <<>>
    /\ ct = None
    /\ ctFrom = None
    /\ buf = <<>>
    /\ bufFrom = None
    /\ ix = Instruction(zk_token_proof_program_id, <<>>, <<>>)
    /\ built = None
    /\ call = <<"init">>
    /\ ret = <<>>

\* The balance cipher: a key from the random source, encrypt / decrypt,
\* serialisation
Next ==
    \/ Random
    \/ DropKey
    \/ Encrypt
    \/ Decrypt
    \/ ToBytes
    \/ ReceiveBuf
    \/ FromBytes

Spec == Init /\ [][Next]_vars

\* Key derivation and the key's life
KeyNext ==
    \/ Random
    \/ New
    \/ FromSeed
    \/ FromSeedAndDerivationPath
    \/ FromSeedPhraseAndPassphrase
    \/ DropKey

KeySpec == Init /\ [][KeyNext]_vars

\* The proof instruction codec
CodecNext ==
    \/ VerifyZeroBalance
    \/ VerifyWithdraw
    \/ VerifyCiphertextCiphertextEquality
    \/ VerifyTransfer
    \/ VerifyTransferWithFee
    \/ VerifyPubkeyValidity
    \/ CloseContextState
    \/ ReceiveInput
    \/ InstructionType
    \/ ProofData

CodecSpec == Init /\ [][CodecNext]_vars


----------------------------------------------------------------------------
(* Properties of the balance cipher (Spec) *)

\* C1: encrypt always returns a ciphertext, and decrypting a ciphertext with the
\* key it was encrypted under returns Some of the balance that was encrypted,
\* for every balance (0 and u64::MAX included), key and nonce.
C1_EncryptDecryptRoundTrip ==
    /\ call[1] = "encrypt" =>
          /\ IsSome(ct) /\ ret = ct[2]
          /\ Len(ret.nonce) = NONCE_LEN /\ Len(ret.ciphertext) = CIPHERTEXT_LEN
    /\ (call[1] = "decrypt" /\ IsSome(ctFrom) /\ ctFrom[2].key = call[2]) =>
          ret = Some(ctFrom[2].balance)

C1_Witness ==
    /\ call[1] = "decrypt"
    /\ IsSome(ctFrom)
    /\ ctFrom[2].key = call[2]
    /\ ctFrom[2].balance = U64_MAX
    /\ ret = Some(U64_MAX)

\* C2: to_bytes is the nonce at offsets 0..12 followed by the ciphertext at
\* offsets 12..36; from_bytes of what to_bytes wrote is Some of a ciphertext with
\* the same nonce and ciphertext; from_bytes of a buffer whose length is not 36
\* is None.
C2_BytesRoundTrip ==
    /\ call[1] = "to_bytes" =>
          /\ Len(ret) = 36
          /\ SubSeq(ret, 1, 12) = call[2].nonce
          /\ SubSeq(ret, 13, 36) = call[2].ciphertext
    /\ (call[1] = "from_bytes" /\ IsSome(bufFrom)) =>
          /\ IsSome(ret)
          /\ ret[2].nonce = bufFrom[2].nonce
          /\ ret[2].ciphertext = bufFrom[2].ciphertext
    /\ (call[1] = "from_bytes" /\ Len(call[2]) # 36) => ret = None

C2_Witness ==
    /\ call[1] = "from_bytes"
    /\ IsSome(bufFrom)
    /\ IsSome(ret)
    /\ ret[2].nonce # Rep(NONCE_LEN, 0)

\* C10: the bytes of a dropped AeKey are all zero, and the plaintext buffer of
\* encrypt is all zero when encrypt returns.
C10_KeyWipedOnDrop ==
    /\ freed # <<>> => freed = Rep(16, 0)
    /\ call[1] = "encrypt" => plaintext = Rep(8, 0)

----------------------------------------------------------------------------
(* Properties of key derivation (KeySpec) *)

\* C3: AeKey::new returns the signer's error when try_pubkey or
\* try_sign_message fails, an error when the signature is the all-zero default
\* signature, and otherwise the key made of the signature's first 16 bytes.
C3_NewRejectsDefaultSignature ==
    call[1] = "new" =>
        LET signer == call[2]
        IN IF signer.try_pubkey[1] = "Err" THEN ret = signer.try_pubkey
           ELSE IF signer.try_sign_message[1] = "Err" THEN ret = signer.try_sign_message
           ELSE IF signer.try_sign_message[2] = Rep(64, 0) THEN ret[1] = "Err"
           ELSE /\ ret = Ok(SubSeq(signer.try_sign_message[2], 1, 16))
                /\ key = Some(SubSeq(signer.try_sign_message[2], 1, 16))

C3_Witness ==
    /\ call[1] = "new"
    /\ call[2].try_pubkey[1] = "Ok"
    /\ call[2].try_sign_message = Ok(Rep(64, 0))
    /\ ret[1] = "Err"

\* C9: from_seed fails for every seed shorter than 16 bytes and, for a seed of
\* 16 bytes or more, returns the first 16 bytes of the digest of the whole seed;
\* from_seed_phrase_and_passphrase returns what from_seed returns on the
\* expanded seed.
C9_SeedLengthBoundary ==
    /\ call[1] = "from_seed" =>
          IF Len(call[2]) < 16 THEN ret[1] = "Err"
          ELSE /\ ret = Ok(SubSeq(Sha3_512(call[2]), 1, 16))
               /\ key = Some(ret[2])
    /\ call[1] = "from_seed_phrase_and_passphrase" =>
          ret = from_seed(generate_seed_from_seed_phrase_and_passphrase(call[2], call[3]))

C9_Witness ==
    /\ call[1] = "from_seed"
    /\ Len(call[2]) = 16
    /\ ret[1] = "Ok"

----------------------------------------------------------------------------
(* Properties of the proof instruction codec (CodecSpec) *)

\* The on-wire discriminants and the payload type of each verify operation
Discriminant(op) ==
    CASE op = "CloseContextState" -> 0
      [] op = "VerifyZeroBalance" -> 1
      [] op = "VerifyWithdraw" -> 2
      [] op = "VerifyCiphertextCiphertextEquality" -> 3
      [] op = "VerifyTransfer" -> 4
      [] op = "VerifyTransferWithFee" -> 5
      [] op = "VerifyPubkeyValidity" -> 6

PayloadTypeOf(op) ==
    CASE op = "VerifyZeroBalance" -> "ZeroBalanceProofData"
      [] op = "VerifyWithdraw" -> "WithdrawData"
      [] op = "VerifyCiphertextCiphertextEquality" -> "CiphertextCiphertextEqualityProofData"
      [] op = "VerifyTransfer" -> "TransferData"
      [] op = "VerifyTransferWithFee" -> "TransferWithFeeData"
      [] op = "VerifyPubkeyValidity" -> "PubkeyValidityData"

\* ix was built by one of the six verify builders
IsVerify == IsSome(built) /\ built[2].op # "CloseContextState"

\* C4: the data of a verify instruction is the discriminant byte followed by the
\* payload's bytes, instruction_type on it returns the variant, and proof_data
\* with the variant's payload type returns the payload.
C4_EncodeDecodeSymmetry ==
    IsVerify =>
        LET b == built[2]
            T == b.proof_data.type
        IN /\ T = PayloadTypeOf(b.op)
           /\ ix.data = <<Discriminant(b.op)>> \o b.proof_data.bytes
           /\ Len(ix.data) = 1 + size_of(T)
           /\ call[1] = "instruction_type" => ret = Some(b.op)
           /\ (call[1] = "proof_data" /\ call[2] = T) => ret = Some(b.proof_data)

C4_Witness ==
    /\ IsVerify
    /\ built[2].op = "VerifyTransferWithFee"
    /\ IsSome(built[2].context_state_info)
    /\ call[1] = "proof_data"
    /\ call[2] = "TransferWithFeeData"
    /\ ret = Some(built[2].proof_data)

\* C5: proof_data with a payload type other than the one the instruction was
\* built with returns None.
C5_CrossTypeDecodeRejected ==
    (IsVerify /\ call[1] = "proof_data" /\ call[2] # built[2].proof_data.type) =>
        ret = None

C5_Witness ==
    /\ IsVerify
    /\ built[2].op = "VerifyTransfer"
    /\ call[1] = "proof_data"
    /\ call[2] = "PubkeyValidityData"
    /\ ret = None

\* C6: a verify instruction has the context account (writable, not signer) and
\* the authority (read-only, not signer), in this order, when a context is
\* given and no account otherwise; its program id is the proof program's and
\* its data is the same with and without a context.
C6_VerifyAccounts ==
    IsVerify =>
        LET b == built[2]
            c == b.context_state_info
        IN /\ IF c[1] = "Some"
              THEN ix.accounts =
                     << [pubkey |-> c[2].context_state_account,
                         is_signer |-> FALSE, is_writable |-> TRUE],
                        [pubkey |-> c[2].context_state_authority,
                         is_signer |-> FALSE, is_writable |-> FALSE] >>
              ELSE ix.accounts = <<>>
           /\ ix.program_id = "ZkTokenProof1111111111111111111111111111111"
           /\ ix.data = encode_verify_proof(b.op, None, b.proof_data).data
           /\ ix.data = encode_verify_proof(b.op, Some(CHOOSE i \in ContextStateInfos : TRUE),
                                            b.proof_data).data

C6_Witness ==
    /\ IsVerify
    /\ IsSome(built[2].context_state_info)
    /\ built[2].context_state_info[2].context_state_account
         # built[2].context_state_info[2].context_state_authority
    /\ Len(ix.accounts) = 2

\* C7: a close_context_state instruction has exactly the context account
\* (writable, not signer), the destination (writable, not signer) and the
\* authority (read-only, signer), in this order, and the one data byte 0.
C7_CloseContextStateShape ==
    (IsSome(built) /\ built[2].op = "CloseContextState") =>
        LET b == built[2]
        IN /\ ix.accounts =
                << [pubkey |-> b.context_state_info.context_state_account,
                    is_signer |-> FALSE, is_writable |-> TRUE],
                   [pubkey |-> b.destination_account,
                    is_signer |-> FALSE, is_writable |-> TRUE],
                   [pubkey |-> b.context_state_info.context_state_authority,
                    is_signer |-> TRUE, is_writable |-> FALSE] >>
           /\ ix.data = <<0>>

C7_Witness ==
    /\ IsSome(built)
    /\ built[2].op = "CloseContextState"
    /\ built[2].context_state_info.context_state_account # built[2].destination_account
    /\ Len(ix.accounts) = 3

\* C8: instruction_type depends on the first byte of its input alone: 0 is
\* CloseContextState, 1..6 are the verify variants in declared order, 7..255 and
\* the empty input are None.
C8_InstructionTypeByFirstByte ==
    call[1] = "instruction_type" =>
        LET input == call[2]
        IN IF input = <<>> THEN ret = None
           ELSE IF input[1] > 6 THEN ret = None
           ELSE \E op \in { "CloseContextState", "VerifyZeroBalance", "VerifyWithdraw",
                            "VerifyCiphertextCiphertextEquality", "VerifyTransfer",
                            "VerifyTransferWithFee", "VerifyPubkeyValidity" } :
                    Discriminant(op) = input[1] /\ ret = Some(op)

C8_Witness ==
    /\ call[1] = "instruction_type"
    /\ Len(call[2]) >= 2
    /\ call[2][1] = 255
    /\ call[2][2] < 7
    /\ ret = None


====
